---- MODULE Spec2Model ----
(***************************************************************************)
(* A model of the ruma binding layer:                                      *)
(*   - EventType and its Display / From<&str> / Serialize / Deserialize    *)
(*     implementations (src/src/lib.rs);                                   *)
(*   - the Event / RoomEvent / StateEvent envelopes and their derived      *)
(*     serde encodings (src/src/lib.rs);                                   *)
(*   - the endpoint descriptors of upload_signatures and get_devices and   *)
(*     the client that dispatches them.                                    *)
(* JSON is modelled at the level of values (serde_json::Value), strings    *)
(* are TLA+ strings, values to be percent-encoded are character sequences. *)
(***************************************************************************)
EXTENDS Integers, Sequences, FiniteSets, TLC

VARIABLES
    et_trail,     \* EventType harness: the values produced so far, oldest first
    et_ops,       \* EventType harness: the conversions applied, et_ops[i] : et_trail[i] -> et_trail[i+1]
    ev,           \* envelope harness: the envelope constructed by the application
    wire,         \* envelope harness: the JSON value on the wire
    dec,          \* envelope harness: the result of the last decode
    nEdits,       \* envelope harness: number of keys the peer added to / removed from the wire object
    session,      \* client: the credential held (Client::session)
    sent,         \* client: the transport requests handed to the HTTP collaborator, oldest first
    call          \* client: the last call to Client::request and its outcome

etVars  == <<et_trail, et_ops>>
envVars == <<ev, wire, dec, nEdits>>
clVars  == <<session, sent, call>>
vars    == <<et_trail, et_ops, ev, wire, dec, nEdits, session, sent, call>>

NONE == [is |-> "None"]

(***************************************************************************)
(* Bounds of the model.                                                    *)
(***************************************************************************)
MaxChain == 2      \* conversions applied in a row to one input
MaxEdits == 1      \* keys a peer adds to / removes from one wire object
MaxSent  == 2      \* requests handed to the transport in one run

(***************************************************************************)
(* JSON values (serde_json::Value).                                        *)
(***************************************************************************)
JNull      == [kind |-> "Null"]
JString(s) == [kind |-> "String", str |-> s]
JNumber(n) == [kind |-> "Number", num |-> n]
JObject(f) == [kind |-> "Object", obj |-> f]
JArray(q)  == [kind |-> "Array", arr |-> q]
EmptyMap   == [k \in {} |-> JNull]

IsObject(j)  == j.kind = "Object"
Keys(j)      == DOMAIN j.obj
\* The keys of a JSON value that is an object, none otherwise.
ObjKeysOf(j) == IF IsObject(j) THEN Keys(j) ELSE {}

(***************************************************************************)
(* EventType (src/src/lib.rs:28-76).                                       *)
(***************************************************************************)
KnownVariants ==
    {"CallAnswer", "CallCandidates", "CallHangup", "CallInvite", "Presence",
     "Receipt", "RoomAliases", "RoomAvatar", "RoomCanonicalAlias", "RoomCreate",
     "RoomGuestAccess", "RoomHistoryVisibility", "RoomJoinRules", "RoomMember",
     "RoomMessage", "RoomName", "RoomPowerLevels", "RoomRedaction",
     "RoomThirdPartyInvite", "RoomTopic", "Tag", "Typing"}

Known(v)  == [variant |-> v]
Custom(s) == [variant |-> "Custom", event_type |-> s]

KnownEventTypes == {Known(v) : v \in KnownVariants}

\* The match arms of Display::fmt, one per known variant.
DisplayArms ==
    [v \in KnownVariants |->
        CASE v = "CallAnswer"            -> "m.call.answer"
          [] v = "CallCandidates"        -> "m.call.candidates"
          [] v = "CallHangup"            -> "m.call.hangup"
          [] v = "CallInvite"            -> "m.call.invite"
          [] v = "Presence"              -> "m.presence"
          [] v = "Receipt"               -> "m.receipt"
          [] v = "RoomAliases"           -> "m.room.aliases"
          [] v = "RoomAvatar"            -> "m.room.avatar"
          [] v = "RoomCanonicalAlias"    -> "m.room.canonical_alias"
          [] v = "RoomCreate"            -> "m.room.create"
          [] v = "RoomGuestAccess"       -> "m.room.guest_access"
          [] v = "RoomHistoryVisibility" -> "m.room.history_visibility"
          [] v = "RoomJoinRules"         -> "m.room.join_rules"
          [] v = "RoomMember"            -> "m.room.member"
          [] v = "RoomMessage"           -> "m.room.message"
          [] v = "RoomName"              -> "m.room.name"
          [] v = "RoomPowerLevels"       -> "m.room.power_levels"
          [] v = "RoomRedaction"         -> "m.room.redaction"
          [] v = "RoomThirdPartyInvite"  -> "m.room.third_party_invite"
          [] v = "RoomTopic"             -> "m.room.topic"
          [] v = "Tag"                   -> "m.tag"
          [] v = "Typing"                -> "m.typing"]

\* A copy-and-paste slip in Display: RoomTopic prints the string of RoomName.
Display_CopiedArm(t) ==
    IF t.variant = "Custom" THEN t.event_type
    ELSE IF t.variant = "RoomTopic" THEN "m.room.name"
    ELSE DisplayArms[t.variant]

\* impl Display for EventType: the wire string of t.
Display(t) ==
    IF t.variant = "Custom" THEN t.event_type ELSE DisplayArms[t.variant]

\* The string patterns of the match in From::from, with the variant of each.
FromArms ==
    [s \in {"m.call.answer", "m.call.candidates", "m.call.hangup", "m.call.invite",
            "m.presence", "m.receipt", "m.room.aliases", "m.room.avatar",
            "m.room.canonical_alias", "m.room.create", "m.room.guest_access",
            "m.room.history_visibility", "m.room.join_rules", "m.room.member",
            "m.room.message", "m.room.name", "m.room.power_levels",
            "m.room.redaction", "m.room.third_party_invite", "m.room.topic",
            "m.tag", "m.typing"} |->
        CASE s = "m.call.answer"             -> "CallAnswer"
          [] s = "m.call.candidates"         -> "CallCandidates"
          [] s = "m.call.hangup"             -> "CallHangup"
          [] s = "m.call.invite"             -> "CallInvite"
          [] s = "m.presence"                -> "Presence"
          [] s = "m.receipt"                 -> "Receipt"
          [] s = "m.room.aliases"            -> "RoomAliases"
          [] s = "m.room.avatar"             -> "RoomAvatar"
          [] s = "m.room.canonical_alias"    -> "RoomCanonicalAlias"
          [] s = "m.room.create"             -> "RoomCreate"
          [] s = "m.room.guest_access"       -> "RoomGuestAccess"
          [] s = "m.room.history_visibility" -> "RoomHistoryVisibility"
          [] s = "m.room.join_rules"         -> "RoomJoinRules"
          [] s = "m.room.member"             -> "RoomMember"
          [] s = "m.room.message"            -> "RoomMessage"
          [] s = "m.room.name"               -> "RoomName"
          [] s = "m.room.power_levels"       -> "RoomPowerLevels"
          [] s = "m.room.redaction"          -> "RoomRedaction"
          [] s = "m.room.third_party_invite" -> "RoomThirdPartyInvite"
          [] s = "m.room.topic"              -> "RoomTopic"
          [] s = "m.tag"                     -> "Tag"
          [] s = "m.typing"                  -> "Typing"]

\* From with the arm of "m.typing" left out: the string falls through to Custom.
From_DroppedArm(s) ==
    IF s \in DOMAIN FromArms \ {"m.typing"} THEN Known(FromArms[s]) ELSE Custom(s)

\* From matching without regard to case: "M.ROOM.MESSAGE" is taken for RoomMessage.
From_IgnoreCase(s) ==
    IF s = "M.ROOM.MESSAGE" THEN Known("RoomMessage")
    ELSE IF s \in DOMAIN FromArms THEN Known(FromArms[s]) ELSE Custom(s)

\* impl From<&str> for EventType: exact match on the known strings, Custom otherwise.
From(s) ==
    IF s \in DOMAIN FromArms THEN Known(FromArms[s]) ELSE Custom(s)

\* Serialize writing the Debug form (the variant's name) instead of the Display form.
SerializeEventType_Debug(t) ==
    JString(IF t.variant = "Custom" THEN t.event_type ELSE t.variant)

\* impl Serialize for EventType: serialize_str(&self.to_string()).
SerializeEventType(t) == JString(Display(t))

Ok(v)  == [is |-> "Ok", v |-> v]
Err(e) == [is |-> "Err", v |-> e]

\* impl Deserialize for EventType: deserialize_str with a visitor that only has
\* visit_str; any other JSON value is an invalid-type error.
DeserializeEventType(j) ==
    IF j.kind = "String" THEN Ok(From(j.str)) ELSE Err("invalid type")

(***************************************************************************)
(* The EventType harness: one input, then conversions applied in a row.    *)
(***************************************************************************)
UnknownStrings ==
    {"io.ruma.test", "", "M.ROOM.MESSAGE", "m.room.message ", "m.room", "m.typings"}

StringInputs == (DOMAIN FromArms) \cup UnknownStrings

EventTypeInputs == KnownEventTypes \cup {Custom(s) : s \in StringInputs}

JsonInputs == {JString(s) : s \in StringInputs} \cup {JNull, JNumber(1)}

AnEventType(t) == [is |-> "EventType", v |-> t]
AStr(s)        == [is |-> "Str", v |-> s]
AJson(j)       == [is |-> "Json", v |-> j]

Last == et_trail[Len(et_trail)]

\* One input of the harness: an EventType, a string or a JSON value.
EtInit ==
    /\ et_trail \in {<<x>> : x \in {AnEventType(t) : t \in EventTypeInputs}
                                 \cup {AStr(s) : s \in StringInputs}
                                 \cup {AJson(j) : j \in JsonInputs}}
    /\ et_ops = <<>>
    /\ ev = NONE /\ wire = NONE /\ dec = NONE /\ nEdits = 0
    /\ session = NONE /\ sent = <<>> /\ call = NONE

EtStep(op, out) ==
    /\ Len(et_ops) < MaxChain
    /\ et_trail' = Append(et_trail, out)
    /\ et_ops' = Append(et_ops, op)
    /\ UNCHANGED <<envVars, clVars>>

\* t.to_string()
DisplayStep ==
    /\ Last.is = "EventType"
    /\ EtStep("Display", AStr(Display(Last.v)))

\* EventType::from(s)
FromStep ==
    /\ Last.is = "Str"
    /\ EtStep("From", AnEventType(From(Last.v)))

\* serde_json::to_value(&t)
SerializeStep ==
    /\ Last.is = "EventType"
    /\ EtStep("Serialize", AJson(SerializeEventType(Last.v)))

\* serde_json::from_value::<EventType>(j)
DeserializeStep ==
    /\ Last.is = "Json"
    /\ LET r == DeserializeEventType(Last.v)
       IN  EtStep("Deserialize",
                  IF r.is = "Ok" THEN AnEventType(r.v) ELSE [is |-> "Err", v |-> r.v])

EtNext == DisplayStep \/ FromStep \/ SerializeStep \/ DeserializeStep

SpecEventType == EtInit /\ [][EtNext]_vars

(***************************************************************************)
(* Envelopes: Event, RoomEvent and StateEvent (src/src/lib.rs:78-156), with *)
(* C = E = serde_json::Value; the unit E of CustomEvent is the JNull extra. *)
(***************************************************************************)
Some(x) == [is |-> "Some", v |-> x]

\* The fields of each struct in declaration order: the Rust name, the key on the
\* wire (serde rename) and whether the field is an Option that
\* skip_serializing_if leaves out and a missing key reads as None.
Fld(name, key, opt) == [field |-> name, key |-> key, optional |-> opt]

EventFields ==
    << Fld("content", "content", FALSE),
       Fld("event_type", "type", FALSE),
       Fld("extra_content", "extra_content", FALSE) >>

RoomEventFields ==
    << Fld("content", "content", FALSE),
       Fld("event_id", "event_id", FALSE),
       Fld("extra_content", "extra_content", FALSE),
       Fld("event_type", "type", FALSE),
       Fld("room_id", "room_id", FALSE),
       Fld("unsigned", "unsigned", TRUE),
       Fld("user_id", "sender", FALSE) >>

StateEventFields ==
    << Fld("content", "content", FALSE),
       Fld("event_id", "event_id", FALSE),
       Fld("event_type", "type", FALSE),
       Fld("extra_content", "extra_content", FALSE),
       Fld("prev_content", "prev_content", TRUE),
       Fld("room_id", "room_id", FALSE),
       Fld("state_key", "state_key", FALSE),
       Fld("unsigned", "unsigned", TRUE),
       Fld("user_id", "sender", FALSE) >>

Fields(kind) ==
    CASE kind = "Event"      -> EventFields
      [] kind = "RoomEvent"  -> RoomEventFields
      [] kind = "StateEvent" -> StateEventFields

Range(q) == {q[i] : i \in 1..Len(q)}

WireKeys(kind)     == {f.key : f \in Range(Fields(kind))}
RequiredKeys(kind) == {f.key : f \in {g \in Range(Fields(kind)) : ~g.optional}}

StringFields == {"event_id", "room_id", "user_id", "state_key"}

\* The JSON value one field serializes to.
FieldToJson(e, f) ==
    CASE f.field = "event_type"   -> SerializeEventType(e.event_type)
      [] f.field \in StringFields -> JString(e[f.field])
      [] f.optional               -> e[f.field].v
      [] OTHER                    -> e[f.field]

\* An encoder that merges the fields of content and the keys of extra into the top
\* level of the object, a later key overwriting an earlier one.
Serialize_Flatten(e) ==
    LET present  == {f \in Range(Fields(e.kind)) :
                        /\ f.field \notin {"content", "extra_content"}
                        /\ f.optional => e[f.field].is = "Some"}
        fieldOf(k) == CHOOSE f \in present : f.key = k
        struct   == [k \in {f.key : f \in present} |-> FieldToJson(e, fieldOf(k))]
        flat(j)  == IF IsObject(j) THEN j.obj ELSE EmptyMap
    IN  JObject(struct @@ flat(e.content) @@ flat(e.extra_content))

\* derive(Serialize): one JSON object with one key per field, under the field's
\* wire name; an Option field that is None is left out.
Serialize(e) ==
    LET present  == {f \in Range(Fields(e.kind)) : f.optional => e[f.field].is = "Some"}
        fieldOf(k) == CHOOSE f \in present : f.key = k
    IN  JObject([k \in {f.key : f \in present} |-> FieldToJson(e, fieldOf(k))])

\* The value of one field read from the JSON value under its key.
FieldFromJson(f, j) ==
    CASE f.field = "event_type"   -> DeserializeEventType(j)
      [] f.field \in StringFields -> IF j.kind = "String" THEN Ok(j.str) ELSE Err("invalid type")
      [] f.optional               -> Ok(IF j = JNull THEN NONE ELSE Some(j))
      [] OTHER                    -> Ok(j)

\* derive(Deserialize): the value must be an object; a key that is no field of the
\* struct is skipped; a field whose value has the wrong type is an error; a
\* missing Option field is None; the first (in declaration order) missing field
\* that is not an Option is a missing-field error.
Deserialize(kind, j) ==
    IF ~IsObject(j) THEN Err("invalid type")
    ELSE
      LET fs      == Fields(kind)
          here(f) == f.key \in Keys(j)
          read(f) == FieldFromJson(f, j.obj[f.key])
          bad     == {i \in 1..Len(fs) : here(fs[i]) /\ read(fs[i]).is = "Err"}
          missing == {i \in 1..Len(fs) : ~here(fs[i]) /\ ~fs[i].optional}
          first(S) == CHOOSE i \in S : \A k \in S : i <= k
          fieldOf(n) == CHOOSE f \in Range(fs) : f.field = n
      IN  IF bad # {} THEN Err("invalid type")
          ELSE IF missing # {} THEN Err("missing field " \o fs[first(missing)].key)
          ELSE Ok([n \in {f.field : f \in Range(fs)} \cup {"kind"} |->
                      IF n = "kind" THEN kind
                      ELSE IF here(fieldOf(n)) THEN read(fieldOf(n)).v ELSE NONE])

(***************************************************************************)
(* The envelope harness: the application constructs an envelope and        *)
(* encodes it; a peer may add or drop top-level keys; the object is decoded.*)
(***************************************************************************)
Contents ==
    {JObject(EmptyMap), JObject("body" :> JString("hi")), JObject("foo" :> JNumber(2))}

Extras ==
    {JNull, JObject(EmptyMap), JObject("foo" :> JNumber(1)), JObject("body" :> JString("x"))}

EnvelopeTypes == {Known("RoomMessage"), Custom("io.ruma.test")}

Unsigneds    == {NONE, Some(JObject(EmptyMap))}
PrevContents == {NONE, Some(JObject("body" :> JString("old")))}

Envelopes ==
    [kind : {"Event"}, content : Contents, event_type : EnvelopeTypes,
     extra_content : Extras]
    \cup
    [kind : {"RoomEvent"}, content : Contents, event_id : {"$e:example.org"},
     extra_content : Extras, event_type : EnvelopeTypes, room_id : {"!r:example.org"},
     unsigned : Unsigneds, user_id : {"@alice:example.org"}]
    \cup
    [kind : {"StateEvent"}, content : Contents, event_id : {"$e:example.org"},
     event_type : EnvelopeTypes, extra_content : Extras, prev_content : PrevContents,
     room_id : {"!r:example.org"}, state_key : {""}, unsigned : Unsigneds,
     user_id : {"@alice:example.org"}]

PeerKeys   == {"foo", "body", "unsigned"}
PeerValues == {JNumber(1), JObject(EmptyMap)}

\* No envelope constructed yet.
EnvInit ==
    /\ ev = NONE /\ wire = NONE /\ dec = NONE /\ nEdits = 0
    /\ et_trail = <<NONE>> /\ et_ops = <<>>
    /\ session = NONE /\ sent = <<>> /\ call = NONE

\* A struct literal: construction checks nothing.
Construct(e) ==
    /\ ev = NONE
    /\ ev' = e
    /\ UNCHANGED <<wire, dec, nEdits, etVars, clVars>>

\* serde_json::to_value(&ev)
Encode ==
    /\ ev # NONE /\ wire = NONE
    /\ wire' = Serialize(ev)
    /\ UNCHANGED <<ev, dec, nEdits, etVars, clVars>>

\* The object met on the wire has a key the sender's struct does not have.
PeerAddsKey(k, v) ==
    /\ wire # NONE /\ dec = NONE /\ nEdits < MaxEdits
    /\ k \notin Keys(wire)
    /\ wire' = JObject(wire.obj @@ (k :> v))
    /\ nEdits' = nEdits + 1
    /\ UNCHANGED <<ev, dec, etVars, clVars>>

\* The object met on the wire lacks a key.
PeerDropsKey(k) ==
    /\ wire # NONE /\ dec = NONE /\ nEdits < MaxEdits
    /\ k \in Keys(wire)
    /\ wire' = JObject([x \in Keys(wire) \ {k} |-> wire.obj[x]])
    /\ nEdits' = nEdits + 1
    /\ UNCHANGED <<ev, dec, etVars, clVars>>

\* serde_json::from_value::<T>(wire), T the struct of the envelope's kind
Decode ==
    /\ wire # NONE /\ dec = NONE
    /\ dec' = Deserialize(ev.kind, wire)
    /\ UNCHANGED <<ev, wire, nEdits, etVars, clVars>>

EnvNext ==
    \/ \E e \in Envelopes : Construct(e)
    \/ Encode
    \/ \E k \in PeerKeys, v \in PeerValues : PeerAddsKey(k, v)
    \/ \E k \in WireKeys("StateEvent") : PeerDropsKey(k)
    \/ Decode

SpecEnvelope == EnvInit /\ [][EnvNext]_vars

(***************************************************************************)
(* Endpoint descriptors (the ruma_api! declarations).                      *)
(***************************************************************************)
\* The pieces of a path template: literal text and {name} placeholders.
Lit(s)      == [lit |-> s]
Param(name) == [param |-> name]

\* A descriptor that lets the request through without a credential.
upload_signatures_Metadata_NoAuth ==
    [method |-> "POST",
     name |-> "upload_signatures",
     path |-> <<Lit("/_matrix/client/r0/keys/signatures/upload")>>,
     rate_limited |-> FALSE,
     requires_authentication |-> FALSE]

upload_signatures_Metadata ==
    [method |-> "POST",
     name |-> "upload_signatures",
     path |-> <<Lit("/_matrix/client/r0/keys/signatures/upload")>>,
     rate_limited |-> FALSE,
     requires_authentication |-> TRUE]

\* #[ruma_api(body)] signed_keys: the whole request entity.
upload_signatures_Request == << [field |-> "signed_keys", placement |-> "RawBody"] >>

\* response: {}
upload_signatures_Response == << >>

get_devices_Metadata ==
    [method |-> "GET",
     name |-> "get_devices",
     path |-> <<Lit("/_matrix/federation/v1/user/devices")>>,
     rate_limited |-> FALSE,
     requires_authentication |-> TRUE]

\* #[ruma_api(query)] user_id
get_devices_Request == << [field |-> "user_id", placement |-> "Query"] >>

\* A response declaration in which devices is no longer required.
get_devices_Response_DevicesOptional == << "user_id", "stream_id" >>

\* response: user_id, stream_id, devices; none of them an Option.
get_devices_Response == << "user_id", "stream_id", "devices" >>

Operations == {"upload_signatures", "get_devices"}

Metadata(op) ==
    CASE op = "upload_signatures" -> upload_signatures_Metadata
      [] op = "get_devices"       -> get_devices_Metadata

RequestFields(op) ==
    CASE op = "upload_signatures" -> upload_signatures_Request
      [] op = "get_devices"       -> get_devices_Request

ResponseFields(op) ==
    CASE op = "upload_signatures" -> upload_signatures_Response
      [] op = "get_devices"       -> get_devices_Response

(***************************************************************************)
(* The encode / decode engine and the client.                              *)
(***************************************************************************)
\* Percent-encoding of one character: unreserved characters stay.
PercentEncodeChar(c) ==
    CASE c = "@" -> "%40"
      [] c = ":" -> "%3A"
      [] c = "/" -> "%2F"
      [] c = " " -> "%20"
      [] c = "#" -> "%23"
      [] c = "?" -> "%3F"
      [] c = "&" -> "%26"
      [] c = "=" -> "%3D"
      [] c = "+" -> "%2B"
      [] c = "%" -> "%25"
      [] OTHER   -> c

RECURSIVE PercentEncode(_)
PercentEncode(cs) ==
    IF cs = <<>> THEN "" ELSE PercentEncodeChar(Head(cs)) \o PercentEncode(Tail(cs))

Placed(op, placement) ==
    {f.field : f \in {g \in Range(RequestFields(op)) : g.placement = placement}}

\* render_path: the template walked left to right, each placeholder replaced by
\* the percent-encoded value of the path-placed field of that name.
RECURSIVE render_path(_, _, _)
render_path(op, template, req) ==
    IF template = <<>> THEN Ok("")
    ELSE
      LET tok  == Head(template)
          rest == render_path(op, Tail(template), req)
      IN  IF "lit" \in DOMAIN tok
          THEN IF rest.is = "Ok" THEN Ok(tok.lit \o rest.v) ELSE rest
          ELSE IF tok.param \notin Placed(op, "Path") \/ tok.param \notin DOMAIN req
               THEN Err("MissingPathField")
               ELSE IF rest.is = "Ok"
                    THEN Ok(PercentEncode(req[tok.param]) \o rest.v) ELSE rest

\* The query string: the query-placed fields in declaration order.
RECURSIVE render_query(_, _)
render_query(fields, req) ==
    IF fields = <<>> THEN ""
    ELSE
      LET f    == Head(fields)
          rest == render_query(Tail(fields), req)
      IN  IF f.placement # "Query" \/ f.field \notin DOMAIN req THEN rest
          ELSE f.field \o "=" \o PercentEncode(req[f.field])
                 \o (IF rest = "" THEN "" ELSE "&" \o rest)

\* The request entity: the raw-body field verbatim, else the object of the
\* body-placed fields.
render_body(op, req) ==
    IF Placed(op, "RawBody") # {}
    THEN req[CHOOSE f \in Placed(op, "RawBody") : TRUE]
    ELSE JObject([f \in Placed(op, "Body") |-> req[f]])

\* encode: the auth precondition first, then path, query, credential and body.
\* No I/O is done here.
encode(op, req, credential) ==
    LET meta == Metadata(op)
        path == render_path(op, meta.path, req)
    IN  IF meta.requires_authentication /\ credential = NONE
        THEN Err("Unauthenticated")
        ELSE IF path.is = "Err" THEN path
        ELSE Ok([op |-> op,
                 method |-> meta.method,
                 path |-> path.v,
                 query |-> render_query(RequestFields(op), req),
                 authorization |-> IF meta.requires_authentication THEN credential ELSE NONE,
                 body |-> render_body(op, req)])

IsSuccess(status) == 200 <= status /\ status < 300

\* decode: a successful status reads the declared body fields from the top-level
\* object, ignoring keys it does not know; the first declared field that is
\* missing is a Malformed error naming it. Any other status is the operation's
\* error, or Unknown with the raw status and body when the body has no error shape.
decode(op, resp) ==
    LET fs      == ResponseFields(op)
        missing == {i \in 1..Len(fs) : fs[i] \notin ObjKeysOf(resp.body)}
        first   == CHOOSE i \in missing : \A k \in missing : i <= k
    IN  IF IsSuccess(resp.status)
        THEN IF ~IsObject(resp.body) THEN Err([error |-> "Malformed", field |-> ""])
             ELSE IF missing # {} THEN Err([error |-> "Malformed", field |-> fs[first]])
             ELSE Ok([f \in Range(fs) |-> resp.body.obj[f]])
        ELSE IF {"errcode", "error"} \subseteq ObjKeysOf(resp.body)
             THEN Err([error |-> "Api", errcode |-> resp.body.obj["errcode"]])
             ELSE Err([error |-> "Unknown", status |-> resp.status, body |-> resp.body])

Alice == <<"@", "a", "l", "i", "c", "e", ":", "e", "x", "a", "m", "p", "l", "e", ".", "o", "r", "g">>
Bob   == <<"@", "b", "o", "b", ":", "m", "a", "t", "r", "i", "x", ".", "o", "r", "g">>

UserIds == {Alice, Bob}

\* The request values the application passes.
Requests(op) ==
    CASE op = "upload_signatures" ->
            {[signed_keys |-> JObject("@alice:example.org" :> JObject(EmptyMap))]}
      [] op = "get_devices" -> [user_id : UserIds]

\* What the homeserver may answer.
ResponseValue(k) ==
    CASE k = "user_id"     -> JString("@alice:example.org")
      [] k = "stream_id"   -> JNumber(5)
      [] k = "devices"     -> JArray(<<>>)
      [] k = "unknown_key" -> JString("x")
      [] k = "errcode"     -> JString("M_FORBIDDEN")
      [] k = "error"       -> JString("forbidden")

SuccessBodies ==
    {JObject([k \in K |-> ResponseValue(k)]) :
        K \in SUBSET {"user_id", "stream_id", "devices", "unknown_key"}}

ErrorBodies ==
    {JObject([k \in {"errcode", "error"} |-> ResponseValue(k)]), JString("Bad Gateway")}

Responses ==
    [status : {200}, body : SuccessBodies] \cup [status : {403}, body : ErrorBodies]

\* Client::new(homeserver_url, session)
Init ==
    /\ session \in {NONE, Some("syt_token")}
    /\ sent = <<>>
    /\ call = NONE
    /\ et_trail = <<NONE>> /\ et_ops = <<>>
    /\ ev = NONE /\ wire = NONE /\ dec = NONE /\ nEdits = 0

\* client.register_guest(): the registration request needs no credential; the
\* session the homeserver returns is stored.
RegisterGuest ==
    /\ Len(sent) < MaxSent
    /\ sent' = Append(sent, [op |-> "register", method |-> "POST",
                             path |-> "/_matrix/client/r0/register", query |-> "kind=guest",
                             authorization |-> NONE, body |-> JObject(EmptyMap)])
    /\ session' = Some("guest_token")
    /\ call' = [op |-> "register", had_credential |-> session # NONE,
                sent_before |-> Len(sent), request |-> NONE, response |-> NONE,
                result |-> Ok(NONE)]
    /\ UNCHANGED <<etVars, envVars>>

\* client.request(req): encode; on an encode error nothing is sent; otherwise the
\* transport collaborator sends the request and its response is decoded.
Request(op, req, resp) ==
    /\ Len(sent) < MaxSent
    /\ LET enc == encode(op, req, session)
       IN  /\ sent' = IF enc.is = "Ok" THEN Append(sent, enc.v) ELSE sent
           /\ call' = [op |-> op, req |-> req, had_credential |-> session # NONE,
                       sent_before |-> Len(sent),
                       request |-> IF enc.is = "Ok" THEN enc.v ELSE NONE,
                       response |-> IF enc.is = "Ok" THEN resp ELSE NONE,
                       result |-> IF enc.is = "Ok" THEN decode(op, resp) ELSE enc]
    /\ UNCHANGED <<session, etVars, envVars>>

Next ==
    \/ RegisterGuest
    \/ \E op \in Operations : \E req \in Requests(op), resp \in Responses :
          Request(op, req, resp)

Spec == Init /\ [][Next]_vars

(***************************************************************************)
(* Properties of EventType.                                                *)
(***************************************************************************)
\* The strings the known variants print.
KnownWireStrings == {Display(t) : t \in KnownEventTypes}

\* The positions i where conversion op1 was followed by conversion op2.
Chained(op1, op2) ==
    {i \in 1..(Len(et_ops) - 1) : et_ops[i] = op1 /\ et_ops[i + 1] = op2}

\* The positions i where conversion op was applied.
Applied(op) == {i \in 1..Len(et_ops) : et_ops[i] = op}

\* C1 as stated: for every EventType t, Custom(s) of any string s included,
\* From(Display(t)) = t.
C1_RoundTripEveryTag ==
    \A i \in Chained("Display", "From") : et_trail[i + 2].v = et_trail[i].v

\* C1 amended: From(Display(t)) = t for every known variant t and for every
\* Custom(s) whose s is not one of the known wire strings.
C1_RoundTripCanonicalTag ==
    \A i \in Chained("Display", "From") :
        LET t == et_trail[i].v
        IN  (t.variant = "Custom" => t.event_type \notin KnownWireStrings)
                => et_trail[i + 2] = AnEventType(t)

C1_Witness ==
    /\ et_ops = <<"Display", "From">>
    /\ et_trail[1] = AnEventType(Custom("io.ruma.test"))
    /\ et_trail[3] = AnEventType(Custom("io.ruma.test"))

\* C2: From never fails; a string that is not a known wire string becomes Custom
\* carrying it unchanged, and Custom(s) prints exactly s.
C2_UnknownStringIsCustom ==
    /\ \A i \in Applied("From") :
          /\ et_trail[i + 1].is = "EventType"
          /\ et_trail[i].v \notin KnownWireStrings
                => /\ et_trail[i + 1].v = Custom(et_trail[i].v)
                   /\ i \in Chained("From", "Display") => et_trail[i + 2].v = et_trail[i].v
    /\ \A i \in Applied("Display") :
          LET t == et_trail[i].v
          IN  (t.variant = "Custom" /\ t.event_type \notin KnownWireStrings)
                  => et_trail[i + 1] = AStr(t.event_type)

C2_Witness ==
    /\ et_ops = <<"From", "Display">>
    /\ et_trail = <<AStr("io.ruma.test"), AnEventType(Custom("io.ruma.test")),
                    AStr("io.ruma.test")>>

\* C3: serializing t gives the JSON string holding Display(t) (the wire string of a
\* known variant, s for Custom(s)); deserializing a JSON string s gives From(s).
C3_SerializedFormIsDisplayForm ==
    /\ \A i \in Applied("Serialize") :
          LET t == et_trail[i].v
              j == et_trail[i + 1].v
          IN  /\ j = JString(Display(t))
              /\ t = Known("RoomCreate") => j = JString("m.room.create")
              /\ t.variant = "Custom" => j = JString(t.event_type)
    /\ \A i \in Applied("Deserialize") :
          LET j == et_trail[i].v
          IN  j.kind = "String" =>
                /\ et_trail[i + 1] = AnEventType(From(j.str))
                /\ j.str = "m.room.create" => et_trail[i + 1].v = Known("RoomCreate")
                /\ j.str = "io.ruma.test" => et_trail[i + 1].v = Custom("io.ruma.test")

C3_Witness ==
    /\ et_ops = <<"Serialize", "Deserialize">>
    /\ et_trail = <<AnEventType(Known("RoomCreate")), AJson(JString("m.room.create")),
                    AnEventType(Known("RoomCreate"))>>

\* C10: Display(From(s)) = s for every string s, the empty one included; the known
\* variants print pairwise distinct strings, and each of these strings parses back
\* to its own variant, never to Custom.
C10_WireStringsPassThrough ==
    /\ \A i \in Chained("From", "Display") : et_trail[i + 2] = AStr(et_trail[i].v)
    /\ Cardinality(KnownWireStrings) = Cardinality(KnownEventTypes)
    /\ \A i \in Chained("Display", "From") :
          et_trail[i].v \in KnownEventTypes => et_trail[i + 2].v = et_trail[i].v

C10_Witness ==
    /\ et_ops = <<"From", "Display">>
    /\ et_trail = <<AStr(""), AnEventType(Custom("")), AStr("")>>

(***************************************************************************)
(* Properties of the envelopes.                                            *)
(***************************************************************************)
\* Content and extra both hold some field name.
Collides(e) == ObjKeysOf(e.content) \cap ObjKeysOf(e.extra_content) # {}

\* The encoded object as it left the encoder.
Encoded == ev # NONE /\ wire # NONE /\ nEdits = 0

\* C4: encoding an Event puts the fields of content and the keys of extra at the
\* top level of one object, with `type` holding the printed tag and no nested
\* `content` key; decoding that object gives back content, event type and extra.
C4_EncodeFlattensContentAndExtra ==
    (Encoded /\ ev.kind = "Event" /\ ~Collides(ev)) =>
        /\ "content" \notin Keys(wire)
        /\ "type" \in Keys(wire) /\ wire.obj["type"] = JString(Display(ev.event_type))
        /\ \A k \in ObjKeysOf(ev.content) :
              k \in Keys(wire) /\ wire.obj[k] = ev.content.obj[k]
        /\ \A k \in ObjKeysOf(ev.extra_content) :
              k \in Keys(wire) /\ wire.obj[k] = ev.extra_content.obj[k]
        /\ dec # NONE =>
              /\ dec.is = "Ok"
              /\ dec.v.content = ev.content
              /\ dec.v.event_type = ev.event_type
              /\ dec.v.extra_content = ev.extra_content

\* C5: decoding an envelope object that holds every structural key and further
\* top-level keys succeeds, and each further key is kept, key and value, in the
\* extra component.
C5_UnknownKeysKeptInExtra ==
    (dec # NONE /\ RequiredKeys(ev.kind) \subseteq Keys(wire)) =>
        LET further == Keys(wire) \ WireKeys(ev.kind)
        IN  further # {} =>
              /\ dec.is = "Ok"
              /\ \A k \in further :
                    /\ k \in ObjKeysOf(dec.v.extra_content)
                    /\ dec.v.extra_content.obj[k] = wire.obj[k]

AuthOperations == {"upload_signatures", "get_devices"}

\* C6: a request of upload_signatures or get_devices made while no credential is
\* held ends in Unauthenticated, produces no transport request and sends nothing;
\* every request of these operations that was sent carries a credential.
C6_AuthPrecondition ==
    /\ (call # NONE /\ call.op \in AuthOperations /\ ~call.had_credential) =>
          /\ call.result = Err("Unauthenticated")
          /\ call.request = NONE
          /\ Len(sent) = call.sent_before
    /\ \A i \in 1..Len(sent) :
          sent[i].op \in AuthOperations => sent[i].authorization # NONE

C6_Witness ==
    /\ call # NONE /\ call.op = "upload_signatures" /\ ~call.had_credential
    /\ call.result = Err("Unauthenticated")
    /\ session = NONE /\ sent = <<>>

\* C7: the path template of get_devices holds the placeholder {user_id}, filled
\* from the path-placed field user_id: a get_devices request for
\* @alice:example.org is sent to /_matrix/federation/v1/user/devices/%40alice%3Aexample.org.
C7_GetDevicesPathHoldsUserId ==
    (call # NONE /\ call.op = "get_devices" /\ call.request # NONE
        /\ call.req.user_id = Alice) =>
            /\ "user_id" \in Placed("get_devices", "Path")
            /\ call.request.path
                 = "/_matrix/federation/v1/user/devices/%40alice%3Aexample.org"

\* C8: a successful get_devices response body that lacks one of user_id,
\* stream_id, devices decodes to a Malformed error naming that field; a body with
\* all three decodes to a Response, whatever further keys it holds.
C8_MissingResponseFieldIsMalformed ==
    (call # NONE /\ call.op = "get_devices" /\ call.response # NONE
        /\ IsSuccess(call.response.status)) =>
            LET missing == {"user_id", "stream_id", "devices"} \ Keys(call.response.body)
            IN  /\ \A f \in missing :
                      missing = {f} => call.result = Err([error |-> "Malformed", field |-> f])
                /\ missing # {} => call.result.is = "Err" /\ call.result.v.error = "Malformed"
                /\ missing = {} =>
                      /\ call.result.is = "Ok"
                      /\ \A f \in {"user_id", "stream_id", "devices"} :
                            call.result.v[f] = call.response.body.obj[f]

C8_Witness ==
    /\ call # NONE /\ call.op = "get_devices" /\ call.response # NONE
    /\ call.response.status = 200
    /\ Keys(call.response.body) = {"user_id", "devices", "unknown_key"}
    /\ call.result = Err([error |-> "Malformed", field |-> "stream_id"])
====
